---- MODULE Spec2Model ----
(***************************************************************************)
(* A model of lib/__init__.py of atari_multitask: the k-fold partition of  *)
(* the game suite (BenchmarkParms), the evaluation loop (TestRun), the     *)
(* interleaved training loop (TrainingRun) and the orchestration           *)
(* (TransferBenchmark).  The source is Python 2 (xrange, __metaclass__,    *)
(* random.sample on a set); Python 2 semantics are modelled.               *)
(*                                                                         *)
(* Python sequences are 0-based, TLA+ sequences 1-based: fold i of the     *)
(* source is folds[i + 1] here.                                            *)
(***************************************************************************)
EXTENDS Integers, Sequences, FiniteSets, TLC

VARIABLES
    NUM_GAMES,      \* len(GAMES): the size of the game suite
    rng,            \* state of the process-wide generator of module random
    parms,          \* the BenchmarkParms objects built so far, in order
    savefile,       \* content of the configuration file on disk, or NoFile
    origin,         \* origin[i]: how parms[i] was obtained, "init" or "load"
    savedFrom,      \* index of the object the file was saved from, 0: none
    err,            \* the exception the last operation raised, or "none"
    op,             \* the last operation performed and its argument
    \* a run (TestRun or TrainingRun); its parms is parms[1]
    pc,             \* position of the run in __call__
    action_space_n, \* game -> game.action_space.n
    observation,    \* the observation the agent is given next
    reward,         \* the reward the agent is given next
    action,         \* the action last passed to game.step
    stepped,        \* the game last stepped, NoneValue before any step
    cur_game,      \* TestRun: the game played; TrainingRun: the game sampled
    round_num,      \* TestRun: round_num; TrainingRun: round
    result,         \* the run's BenchmarkResult
    \* a TrainingRun
    game_rounds_left,   \* game -> rounds left of its quota
    initial_rounds,     \* game_rounds_left as the run started with it
    items_order,        \* the order game_rounds_left.items() yields the games in
    envs,               \* the games that have an entry in self.envs
    has_result,         \* whether the run has an attribute `result`
    threshold,          \* the last threshold drawn by sample_env
    done,               \* the done flag of the last step (of either run)
    no_reward_turns,    \* turns of the visit since the last positive reward
    env_op,             \* the last reset or step of an environment: its kind,
                        \* its game, and the game's rounds left before it
    \* a TransferBenchmark; its parms is parms[1]
    bench_pc,           \* position in do_folds
    agent_class,        \* AgentClass: "RandomAgent" or "DeepCopyAgent"
    agents,             \* the agent objects: agents[a] is the learned state of a
    untrained_agent,    \* self.untrained_agent, an index of agents
    game_agents,        \* game -> its game agent
    game_results,       \* game -> the result of its game agent
    fold_agents,        \* list of the fold agents
    fold_results,       \* list of game -> result, one per fold
    game_index,         \* ensure_game_agents: games of GAME_NAMES gone through
    fold_num            \* do_folds: the fold being done

parmsVars == <<NUM_GAMES, rng, parms, savefile, origin, savedFrom, op>>

runVars == <<pc, action_space_n, observation, reward, action, stepped, cur_game,
            round_num, result>>

trainVars == <<game_rounds_left, initial_rounds, items_order, envs, has_result,
              threshold, done, no_reward_turns, env_op>>

benchVars == <<bench_pc, agent_class, agents, untrained_agent, game_agents,
              game_results, fold_agents, fold_results, game_index, fold_num>>

vars == <<parmsVars, err, runVars, trainVars, benchVars>>

----------------------------------------------------------------------------
(* Bounds of the model *)

MaxGames == 3       \* suite sizes 0..MaxGames (the source's suite has 59)
MaxFolds == 3       \* num_folds arguments 1..MaxFolds
RngStates == 12     \* generator states 0..RngStates-1
MaxParms == 2       \* BenchmarkParms objects built in one behaviour
MaxRounds == 3      \* max_rounds_per_game of a configuration file: 0..MaxRounds
MaxActions == 2     \* game.action_space.n: 1..MaxActions
MaxTrainGames == 2  \* games of a TrainingRun's training set: 1..MaxTrainGames
MaxQuota == 2       \* initial rounds left of a game: 0..MaxQuota
MaxNoReward == 2    \* max_turns_w_no_reward: 0..MaxNoReward
MaxVisits == 4      \* visits (outer iterations) of a TrainingRun
MaxTotalRounds == 3 \* sum of the initial rounds left of a run whose loop is followed

----------------------------------------------------------------------------
(* The game suite *)

\* The head of the list GAMES of the source.
SourceGames == <<"air_raid", "alien", "amidar", "assault", "asterix", "asteroids">>

GAMES == SubSeq(SourceGames, 1, NUM_GAMES)

\* game_name(raw_name): CamelCase plus '-v0'.  The body reads the global
\* `game`, not its parameter raw_name.
game_name(raw_name, game) ==
    CASE game = "air_raid" -> "AirRaid-v0"
      [] game = "alien" -> "Alien-v0"
      [] game = "amidar" -> "Amidar-v0"
      [] game = "assault" -> "Assault-v0"
      [] game = "asterix" -> "Asterix-v0"
      [] game = "asteroids" -> "Asteroids-v0"

\* [game_name(game) for game in GAMES]: a Python 2 list comprehension binds
\* its variable in the enclosing (module) scope, so the global `game` the
\* body reads is the element being converted.
GAME_NAMES == [i \in 1..Len(GAMES) |-> game_name(GAMES[i], GAMES[i])]

Range(s) == {s[i] : i \in 1..Len(s)}

\* list(a_set): the iteration order of a Python set, arbitrary but fixed for
\* a given content.
RECURSIVE SetToList(_)
SetToList(S) ==
    IF S = {} THEN <<>>
    ELSE LET x == CHOOSE y \in S : TRUE
         IN <<x>> \o SetToList(S \ {x})

----------------------------------------------------------------------------
(* Module random.  The generator is deterministic: its state fixes every   *)
(* later output.  A state is modelled as a number whose mixed-radix digits *)
(* are the outputs to come: drawing below n yields state % n and leaves    *)
(* state \div n.                                                           *)

randbelow(r, n) == r % n
advance(r, n) == r \div n

NoneValue == "None"

\* random.random(): a float in [0, 1), here one of two values.
random_random(r) ==
    [value |-> IF randbelow(r, 2) = 0 THEN "0.25" ELSE "0.75", rng |-> advance(r, 2)]

\* random.sample(population, k): k draws without replacement, in draw
\* order; ValueError when k exceeds the population.
RECURSIVE sample(_, _, _)
sample(population, k, r) ==
    IF k = 0 THEN [list |-> <<>>, rng |-> r]
    ELSE LET pool == SetToList(population)
             x == pool[randbelow(r, Len(pool)) + 1]
             rest == sample(population \ {x}, k - 1, advance(r, Len(pool)))
         IN [list |-> <<x>> \o rest.list, rng |-> rest.rng]

----------------------------------------------------------------------------
(* BenchmarkParms *)

fold_len_off_by_one(i, fold_size, remainder) ==
    IF i <= remainder THEN fold_size + 1 ELSE fold_size

\* The size of fold i: the remainder games go to the first folds.
fold_len(i, fold_size, remainder) ==
    IF i < remainder THEN fold_size + 1 ELSE fold_size

\* The loop `for i in range(num_folds)` from iteration i on, with the games
\* still to place and the generator state.
RECURSIVE draw_folds(_, _, _, _, _, _)
draw_folds(i, num_folds, fold_size, remainder, games, r) ==
    IF i = num_folds
    THEN [folds |-> <<>>, games |-> games, rng |-> r, err |-> "none"]
    ELSE LET k == fold_len(i, fold_size, remainder)
         IN IF k > Cardinality(games)
            THEN [folds |-> <<>>, games |-> games, rng |-> r, err |-> "ValueError"]
            ELSE LET s == sample(games, k, r)
                     rest == draw_folds(i + 1, num_folds, fold_size, remainder,
                                        games \ Range(s.list), s.rng)
                 IN [folds |-> <<s.list>> \o rest.folds, games |-> rest.games,
                     rng |-> rest.rng, err |-> rest.err]

\* BenchmarkParms.__init__: the object built (max_rounds_per_game is
\* accepted and not stored), the generator state left, and the exception.
\* The seed argument is stored; the generator is not seeded with it.
BenchmarkParms_init(num_folds, max_turns_w_no_reward, seed, max_rounds_per_game, r) ==
    LET sd == IF seed = NoneValue THEN random_random(r)
              ELSE [value |-> seed, rng |-> r]
        games == Range(GAME_NAMES)
        fold_size == NUM_GAMES \div num_folds
        remainder == NUM_GAMES % num_folds
        d == draw_folds(0, num_folds, fold_size, remainder, games, sd.rng)
    IN [obj |-> [num_folds |-> num_folds,
                 max_turns_w_no_reward |-> max_turns_w_no_reward,
                 seed |-> sd.value,
                 folds |-> d.folds],
        rng |-> d.rng,
        err |-> IF d.err # "none" THEN d.err
                ELSE IF d.games # {} THEN "AssertionError" ELSE "none"]

has_attr(obj, name) == name \in DOMAIN obj

\* No file on disk.
NoFile ==
    [exists |-> FALSE, folds |-> <<>>, seed |-> NoneValue,
     max_turns_w_no_reward |-> 0, max_rounds_per_game |-> 0]

\* BenchmarkParms.save: the dict literal is built before the file is opened.
save(p) ==
    IF ~has_attr(p, "max_rounds_per_game")
    THEN [file |-> savefile, err |-> "AttributeError"]
    ELSE [file |-> [exists |-> TRUE, folds |-> p.folds, seed |-> p.seed,
                    max_turns_w_no_reward |-> p.max_turns_w_no_reward,
                    max_rounds_per_game |-> p.max_rounds_per_game],
          err |-> "none"]

\* Defaults of BenchmarkParms.__init__.
DefaultNumFolds == 5
DefaultMaxTurns == 10000
DefaultMaxRounds == 100000

\* BenchmarkParms.load_from_file: a default object is built first (drawing
\* folds and a seed from the generator), then its fields are overwritten.
load_from_file(file, r) ==
    IF ~file.exists
    THEN [obj |-> NoneValue, rng |-> r, err |-> "IOError"]
    ELSE LET b == BenchmarkParms_init(DefaultNumFolds, DefaultMaxTurns, NoneValue,
                                      DefaultMaxRounds, r)
         IN IF b.err # "none"
            THEN [obj |-> NoneValue, rng |-> b.rng, err |-> b.err]
            ELSE [obj |-> [folds |-> file.folds,
                           num_folds |-> Len(file.folds),
                           max_turns_w_no_reward |-> file.max_turns_w_no_reward,
                           seed |-> file.seed,
                           max_rounds_per_game |-> file.max_rounds_per_game],
                  rng |-> b.rng, err |-> "none"]

----------------------------------------------------------------------------
(* TransferBenchmark: the sets of a fold *)

\* test_set(test_index): set(self.parms.folds[test_index])
test_set(p, test_index) == Range(p.folds[test_index + 1])

training_set_unfiltered(p, test_index) ==
    UNION {Range(p.folds[i + 1]) : i \in 0..(Len(p.folds) - 1)}

\* training_set(test_index): every game of every fold but test_index
training_set(p, test_index) ==
    UNION {Range(p.folds[i + 1]) : i \in (0..(Len(p.folds) - 1)) \ {test_index}}

----------------------------------------------------------------------------
(* The configuration operations as actions *)

Seeds == {"1"}

\* A configuration file written by hand: one fold holding the whole suite.
HandWrittenFile ==
    [exists |-> TRUE, folds |-> <<GAME_NAMES>>, seed |-> "1",
     max_turns_w_no_reward |-> 1, max_rounds_per_game |-> 2]

\* A configuration file whose two folds both hold the whole suite.
OverlappingFile == [HandWrittenFile EXCEPT !.folds = <<GAME_NAMES, GAME_NAMES>>]

\* No run exists.
NoRun ==
    /\ pc = "none"
    /\ action_space_n = <<>>
    /\ observation = "none"
    /\ reward = 0
    /\ action = 0
    /\ stepped = NoneValue
    /\ cur_game = NoneValue
    /\ round_num = 0
    /\ result = [rewards |-> <<>>, dones |-> <<>>, games |-> <<>>]

NoEnvOp == [kind |-> "none", game |-> NoneValue, rounds_left |-> 0]

\* No TrainingRun exists.
NoTraining ==
    /\ game_rounds_left = <<>>
    /\ initial_rounds = <<>>
    /\ items_order = <<>>
    /\ envs = {}
    /\ has_result = FALSE
    /\ threshold = 0
    /\ done = FALSE
    /\ no_reward_turns = 0
    /\ env_op = NoEnvOp

\* No TransferBenchmark exists.
NoBenchmark ==
    /\ bench_pc = "none"
    /\ agent_class = NoneValue
    /\ agents = <<>>
    /\ untrained_agent = 0
    /\ game_agents = <<>>
    /\ game_results = <<>>
    /\ fold_agents = <<>>
    /\ fold_results = <<>>
    /\ game_index = 0
    /\ fold_num = 0

ParmsInit ==
    /\ NoBenchmark
    /\ NoTraining
    /\ NoRun
    /\ NUM_GAMES \in 0..MaxGames
    /\ rng \in 0..(RngStates - 1)
    /\ parms = <<>>
    /\ origin = <<>>
    /\ savefile \in {NoFile, HandWrittenFile, OverlappingFile}
    /\ savedFrom = 0
    /\ err = "none"
    /\ op = [name |-> "none", arg |-> 0]

\* p = BenchmarkParms(num_folds, max_turns_w_no_reward, seed, max_rounds_per_game)
NewParms(num_folds, max_turns_w_no_reward, seed, max_rounds_per_game) ==
    /\ Len(parms) < MaxParms
    /\ LET b == BenchmarkParms_init(num_folds, max_turns_w_no_reward, seed,
                                    max_rounds_per_game, rng)
       IN /\ rng' = b.rng
          /\ err' = b.err
          /\ parms' = IF b.err = "none" THEN Append(parms, b.obj) ELSE parms
          /\ origin' = IF b.err = "none" THEN Append(origin, "init") ELSE origin
    /\ op' = [name |-> "new", arg |-> Len(parms')]
    /\ UNCHANGED <<NUM_GAMES, savefile, savedFrom, runVars, trainVars,
                   benchVars>>

\* parms[i].save(filename)
Save(i) ==
    /\ i \in 1..Len(parms)
    /\ LET s == save(parms[i])
       IN /\ savefile' = s.file
          /\ err' = s.err
          /\ savedFrom' = IF s.err = "none" THEN i ELSE savedFrom
    /\ op' = [name |-> "save", arg |-> i]
    /\ UNCHANGED <<NUM_GAMES, rng, parms, origin, runVars, trainVars,
                   benchVars>>

\* p = BenchmarkParms.load_from_file(filename)
Load ==
    /\ Len(parms) < MaxParms
    /\ LET l == load_from_file(savefile, rng)
       IN /\ rng' = l.rng
          /\ err' = l.err
          /\ parms' = IF l.err = "none" THEN Append(parms, l.obj) ELSE parms
          /\ origin' = IF l.err = "none" THEN Append(origin, "load") ELSE origin
    /\ op' = [name |-> "load", arg |-> Len(parms')]
    /\ UNCHANGED <<NUM_GAMES, savefile, savedFrom, runVars, trainVars,
                   benchVars>>

ParmsNext ==
    \/ \E num_folds \in 1..MaxFolds, seed \in Seeds \cup {NoneValue},
          max_rounds_per_game \in 1..2 :
          NewParms(num_folds, 1, seed, max_rounds_per_game)
    \/ \E i \in 1..MaxParms : Save(i)
    \/ Load

SpecParms == ParmsInit /\ [][ParmsNext]_vars

----------------------------------------------------------------------------
(* Properties of the fold partition *)

Built == {i \in 1..Len(parms) : origin[i] = "init"}

PairwiseDisjoint(folds) ==
    \A i, j \in 1..Len(folds) : i # j => Range(folds[i]) \cap Range(folds[j]) = {}

\* C1: for every suite size and every num_folds >= 1 (folds beyond the suite
\* size are empty) the constructor raises nothing, so its closing assertion
\* holds, and builds exactly num_folds folds, pairwise disjoint, without
\* repetition, covering the suite, the first (N mod k) of size ceil(N/k) and
\* the others of size floor(N/k).
C1_FoldsPartitionSuite ==
    /\ op.name = "new" => err = "none"
    /\ \A n \in Built :
          LET p == parms[n]
              k == p.num_folds
          IN /\ Len(p.folds) = k
             /\ PairwiseDisjoint(p.folds)
             /\ UNION {Range(p.folds[i]) : i \in 1..k} = Range(GAME_NAMES)
             /\ \A i \in 1..k :
                   /\ Cardinality(Range(p.folds[i])) = Len(p.folds[i])
                   /\ Len(p.folds[i]) =
                        IF i - 1 < NUM_GAMES % k
                        THEN (NUM_GAMES + k - 1) \div k
                        ELSE NUM_GAMES \div k

\* A configuration built with more folds than games and a remainder: two
\* folds of one game and an empty fold.
C1_Witness ==
    \E n \in Built :
        /\ parms[n].num_folds > NUM_GAMES
        /\ NUM_GAMES >= 2
        /\ Len(parms[n].folds[1]) = 1
        /\ Len(parms[n].folds[parms[n].num_folds]) = 0

\* C2: for every fold index i of a built configuration, training_set(i) and
\* test_set(i) are disjoint, test_set(i) is fold i, their union is the whole
\* suite, and training_set(i) is the union of the other folds.
C2_TrainingAndTestSets ==
    \A n \in Built :
        LET p == parms[n]
        IN \A i \in 0..(p.num_folds - 1) :
              /\ training_set(p, i) \cap test_set(p, i) = {}
              /\ test_set(p, i) = Range(p.folds[i + 1])
              /\ training_set(p, i) \cup test_set(p, i) = Range(GAME_NAMES)
              /\ training_set(p, i) =
                    UNION {Range(p.folds[j]) : j \in (1..p.num_folds) \ {i + 1}}

\* A built configuration of several folds where a fold and its training set
\* are both non-empty.
C2_Witness ==
    \E n \in Built :
        /\ parms[n].num_folds >= 2
        /\ test_set(parms[n], 1) # {}
        /\ training_set(parms[n], 1) # {}

\* C3: two configurations built with the same num_folds and the same given
\* seed, over the same suite, hold the same folds, whatever the generator
\* state before each construction.
C3_SameSeedSameFolds ==
    \A m, n \in Built :
        (/\ parms[m].seed \in Seeds
         /\ parms[m].seed = parms[n].seed
         /\ parms[m].num_folds = parms[n].num_folds)
        => parms[m].folds = parms[n].folds

\* C10: saving a built configuration succeeds, and loading the file it wrote
\* yields the same folds, seed, max_turns_w_no_reward and
\* max_rounds_per_game.
C10_SaveLoadRoundTrip ==
    /\ (op.name = "save" /\ op.arg \in Built) => err = "none"
    /\ (op.name = "load" /\ savedFrom \in Built) =>
          /\ err = "none"
          /\ LET p == parms[savedFrom]
                 q == parms[op.arg]
             IN /\ q.folds = p.folds
                /\ q.seed = p.seed
                /\ q.max_turns_w_no_reward = p.max_turns_w_no_reward
                /\ q.max_rounds_per_game = p.max_rounds_per_game

Loaded == {i \in 1..Len(parms) : origin[i] = "load"}

\* C14: load_from_file never returns a configuration whose folds are not a
\* partition of the suite: the folds of every loaded configuration are
\* pairwise disjoint, hold no game twice and together cover the suite.
C14_LoadedFoldsPartitionSuite ==
    \A n \in Loaded :
        LET p == parms[n]
        IN /\ PairwiseDisjoint(p.folds)
           /\ \A i \in 1..Len(p.folds) :
                 Cardinality(Range(p.folds[i])) = Len(p.folds[i])
           /\ UNION {Range(p.folds[i]) : i \in 1..Len(p.folds)} = Range(GAME_NAMES)

----------------------------------------------------------------------------
(* BenchmarkResult *)

\* BenchmarkResult(agent, game): games starts with (game, 0) when a game is
\* given.
BenchmarkResult_init(game) ==
    [rewards |-> <<>>, dones |-> <<>>,
     games |-> IF game = NoneValue THEN <<>> ELSE <<<<game, 0>>>>]

record_reward(res, rew) == [res EXCEPT !.rewards = Append(@, rew)]

record_done(res, round) == [res EXCEPT !.dones = Append(@, round)]

record_game(res, game, round) == [res EXCEPT !.games = Append(@, <<game, round>>)]

----------------------------------------------------------------------------
(* TestRun.__call__ *)

\* What an agent may return: any integer, here -1..MaxActions.
Candidates == (-1)..MaxActions

\* The rewards a game may give.
Rewards == {0, 1}

\* `if action >= self.game.action_space.n: action = 0`
map_invalid_action(candidate, n) == IF candidate >= n THEN 0 ELSE candidate

test_records_skip_reward_on_done(res, rew, terminated, round) ==
    IF terminated THEN record_done(res, round) ELSE record_reward(res, rew)

test_records_done_at_next_round(res, rew, terminated, round) ==
    IF terminated THEN record_done(record_reward(res, rew), round + 1)
    ELSE record_reward(res, rew)

\* What one round records: the reward, and the round number when the game
\* reported the episode over.
test_records(res, rew, terminated, round) ==
    IF terminated THEN record_done(record_reward(res, rew), round)
    ELSE record_reward(res, rew)

\* The attributes a TestRun has when line 174 runs: the one line 173
\* assigned and the methods of its classes.
TestRunAttrsAtCreateEnv == {"agent", "create_env", "__init__", "__call__"}

\* EnvMaker.create_env(game_name) on an object with these attributes:
\* gym.make, then env.seed(self.parms.seed).
create_env(attrs, game) ==
    IF "parms" \in attrs THEN "none" ELSE "AttributeError"

\* A TestRun on game GAME_NAMES[1], either about to be constructed by
\* __init__ as written, or with its fields set: game, parms (a configuration
\* built by BenchmarkParms(...) or loaded from a file) and result.
TestInit ==
    /\ NoBenchmark
    /\ NoTraining
    /\ NUM_GAMES = 1
    /\ rng = 0
    /\ savedFrom = 0
    /\ op = [name |-> "none", arg |-> 0]
    /\ err = "none"
    /\ \/ /\ savefile = NoFile
          /\ origin = <<"init">>
          /\ \E max_rounds_per_game \in 0..MaxRounds :
                parms = <<BenchmarkParms_init(1, 1, "1", max_rounds_per_game, rng).obj>>
       \/ /\ \E max_rounds_per_game \in 0..MaxRounds :
                savefile = [HandWrittenFile EXCEPT
                              !.max_rounds_per_game = max_rounds_per_game]
          /\ origin = <<"load">>
          /\ parms = <<load_from_file(savefile, rng).obj>>
    /\ pc \in {"init", "call"}
    /\ cur_game = GAME_NAMES[1]
    /\ \E n \in 1..MaxActions : action_space_n = [g \in {cur_game} |-> n]
    /\ observation = "none"
    /\ reward = 0
    /\ action = 0
    /\ stepped = NoneValue
    /\ round_num = 0
    /\ result = IF pc = "init" THEN BenchmarkResult_init(NoneValue)
                ELSE BenchmarkResult_init(cur_game)

\* TestRun.__init__ as written (lines 173-176): the environment is created
\* before self.parms is assigned.
TestRunInit ==
    /\ pc = "init"
    /\ op' = [name |-> "TestRun", arg |-> 0]
    /\ err' = create_env(TestRunAttrsAtCreateEnv, cur_game)
    /\ IF err' = "none"
       THEN pc' = "call" /\ result' = BenchmarkResult_init(cur_game)
       ELSE pc' = "failed" /\ result' = result
    /\ UNCHANGED <<NUM_GAMES, rng, parms, savefile, origin, savedFrom,
                   action_space_n, observation, reward, action, stepped, cur_game,
                   round_num, trainVars, benchVars>>

\* Lines 180-182: reset, reward = 0, and the loop's range is evaluated.
TestCall ==
    /\ pc = "call"
    /\ observation' = "reset"
    /\ reward' = 0
    /\ round_num' = 0
    /\ IF has_attr(parms[1], "max_rounds_per_game")
       THEN pc' = "loop" /\ err' = "none"
       ELSE pc' = "failed" /\ err' = "AttributeError"
    /\ UNCHANGED <<parmsVars, action_space_n, action, stepped, cur_game, result,
                   trainVars,
                   benchVars>>

\* One iteration of the loop (lines 183-190); round_num counts the
\* iterations done, so it is the loop variable of this one.
TestRound(candidate, rew, terminated) ==
    /\ pc = "loop"
    /\ round_num < parms[1].max_rounds_per_game
    /\ action' = map_invalid_action(candidate, action_space_n[cur_game])
    /\ stepped' = cur_game
    /\ result' = test_records(result, rew, terminated, round_num)
    /\ observation' = IF terminated THEN "reset" ELSE "step"
    /\ reward' = rew
    /\ done' = terminated
    /\ round_num' = round_num + 1
    /\ UNCHANGED <<parmsVars, err, pc, action_space_n, cur_game, game_rounds_left,
                   initial_rounds, items_order, envs, has_result, threshold,
                   no_reward_turns, env_op, benchVars>>

\* Line 191: the range is exhausted.
TestReturn ==
    /\ pc = "loop"
    /\ round_num >= parms[1].max_rounds_per_game
    /\ pc' = "done"
    /\ UNCHANGED <<parmsVars, err, action_space_n, observation, reward, action,
                   stepped, cur_game, round_num, result, trainVars,
                   benchVars>>

TestNext ==
    \/ TestRunInit
    \/ TestCall
    \/ \E candidate \in Candidates, rew \in Rewards, terminated \in BOOLEAN :
          TestRound(candidate, rew, terminated)
    \/ TestReturn

SpecTest == TestInit /\ [][TestNext]_vars

\* C4: whatever integer the agent returns, negative or beyond the game's
\* action count n, the action passed to the game's step lies in 0..n-1.
C4_StepActionInRange ==
    stepped # NoneValue => action \in 0..(action_space_n[stepped] - 1)

\* C5: when a TestRun completes, its rewards list has exactly
\* max_rounds_per_game entries, whatever rounds the game reported over.
C5_RewardCountIsBudget ==
    pc = "done" => Len(result.rewards) = parms[1].max_rounds_per_game

\* A completed run in which some rounds, not all, ended an episode.
C5_Witness ==
    /\ pc = "done"
    /\ parms[1].max_rounds_per_game >= 2
    /\ Len(result.dones) >= 1
    /\ Len(result.dones) < parms[1].max_rounds_per_game

\* C15: the recorded episode boundaries are exactly the turns at which the
\* step reported the episode over: they are strictly increasing 0-based turn
\* indices below max_rounds_per_game; a turn whose step reports the episode
\* over appends its index and leaves the reset observation for the agent's
\* next query, any other turn appends nothing and leaves the step's
\* observation; and the run returns only with the whole budget played.
C15_BoundariesAreTerminationTurns ==
    /\ [](\A i \in 1..Len(result.dones) :
             /\ result.dones[i] \in 0..(round_num - 1)
             /\ i > 1 => result.dones[i - 1] < result.dones[i])
    /\ [](pc \in {"loop", "done"} => round_num <= parms[1].max_rounds_per_game)
    /\ [][round_num' = round_num + 1 =>
            IF done'
            THEN /\ result'.dones = Append(result.dones, round_num)
                 /\ observation' = "reset"
            ELSE /\ result'.dones = result.dones
                 /\ observation' = "step"]_vars
    /\ [](pc = "done" => round_num = parms[1].max_rounds_per_game)

\* A run that played on after the episode ended at turn 0 and again at turn
\* 2, up to its budget of three turns.
C15_Witness ==
    /\ pc = "done"
    /\ parms[1].max_rounds_per_game = 3
    /\ result.dones = <<0, 2>>
    /\ Len(result.rewards) = 3

\* C18: the environment of a run is created successfully and seeded with
\* the configuration's seed before its first reset or step: constructing a
\* TestRun raises nothing.
C18_EnvironmentCreatedAndSeeded ==
    op.name = "TestRun" => (err = "none" /\ pc # "failed")

----------------------------------------------------------------------------
(* TrainingRun *)

RECURSIVE SumOver(_, _)
SumOver(f, S) ==
    IF S = {} THEN 0
    ELSE LET x == CHOOSE y \in S : TRUE
         IN f[x] + SumOver(f, S \ {x})

\* total_rounds_left(): sum(self.game_rounds_left.values())
total_rounds_left(rounds_left) == SumOver(rounds_left, DOMAIN rounds_left)

\* The loop of sample_env from item i on: the game the loop variable holds
\* when the loop breaks or runs out of items.
RECURSIVE scan_items(_, _, _, _, _)
scan_items(items, rounds_left, i, cumulative_sum, thresh) ==
    LET game == items[i]
        sum == cumulative_sum + rounds_left[game]
    IN IF sum >= thresh \/ i = Len(items) THEN game
       ELSE scan_items(items, rounds_left, i + 1, sum, thresh)

\* sample_env(): the game chosen for a drawn threshold.
sample_env(items, rounds_left, thresh) == scan_items(items, rounds_left, 1, 0, thresh)

keeps_playing_streak_off_by_one(rounds_left, is_done, streak, max_turns_w_no_reward) ==
    /\ rounds_left > 0
    /\ ~is_done
    /\ streak <= max_turns_w_no_reward

\* The condition of the inner while loop.
keeps_playing(rounds_left, is_done, streak, max_turns_w_no_reward) ==
    /\ rounds_left > 0
    /\ ~is_done
    /\ streak < max_turns_w_no_reward

charge_unless_rewarded(rounds_left, game, rew) ==
    IF rew > 0 THEN rounds_left ELSE [rounds_left EXCEPT ![game] = @ - 1]

\* `self.game_rounds_left[game_name] -= 1`, once per turn whatever its reward.
charge(rounds_left, game, rew) == [rounds_left EXCEPT ![game] = @ - 1]

Orders(S) == {s \in [1..Cardinality(S) -> S] : Range(s) = S}

\* A TrainingRun at the call of __call__, over the whole suite as training
\* set, with any quota per game (__init__ as written takes the quota from
\* self.max_test_game_rounds, which nothing defines).  As __init__ leaves
\* the other fields, envs is an empty defaultdict and the result is bound to
\* trace_result, not result; a run whose envs and result were set by its
\* owner is drawn as well.
TrainInit ==
    /\ NoBenchmark
    /\ NUM_GAMES \in 1..MaxTrainGames
    /\ rng = 0
    /\ savefile = NoFile
    /\ savedFrom = 0
    /\ op = [name |-> "none", arg |-> 0]
    /\ err = "none"
    /\ origin = <<"init">>
    /\ \E max_turns_w_no_reward \in 0..MaxNoReward :
          parms = <<BenchmarkParms_init(1, max_turns_w_no_reward, "1", 1, rng).obj>>
    /\ game_rounds_left \in [Range(GAME_NAMES) -> 0..MaxQuota]
    /\ initial_rounds = game_rounds_left
    /\ items_order \in Orders(Range(GAME_NAMES))
    /\ envs \in {{}, Range(GAME_NAMES)}
    /\ has_result \in BOOLEAN
    /\ action_space_n \in [Range(GAME_NAMES) -> 1..MaxActions]
    /\ pc = "while"
    /\ cur_game = NoneValue
    /\ observation = "none"
    /\ reward = 0
    /\ action = 0
    /\ stepped = NoneValue
    /\ round_num = 0
    /\ result = BenchmarkResult_init(NoneValue)
    /\ threshold = 0
    /\ done = FALSE
    /\ no_reward_turns = 0
    /\ env_op = NoEnvOp

\* Lines 345-346: the outer loop goes on and sample_env draws a threshold,
\* scans the games and looks the game up in self.envs, whose default
\* factory create_env is called without the game name it needs.
TrainSample(thresh) ==
    /\ pc = "while"
    /\ total_rounds_left(game_rounds_left) > 0
    /\ Len(result.games) < MaxVisits
    /\ thresh \in 0..total_rounds_left(game_rounds_left)
    /\ threshold' = thresh
    /\ LET game == sample_env(items_order, game_rounds_left, thresh)
       IN IF game \in envs
          THEN pc' = "sampled" /\ cur_game' = game /\ err' = "none"
          ELSE pc' = "failed" /\ cur_game' = cur_game /\ err' = "TypeError"
    /\ UNCHANGED <<parmsVars, action_space_n, observation, reward, action, stepped,
                   round_num, result, game_rounds_left, initial_rounds, items_order,
                   envs, has_result, done, no_reward_turns, env_op,
                   benchVars>>

\* Lines 347-351: the visit is recorded, the game reset, the locals set.
TrainBeginVisit ==
    /\ pc = "sampled"
    /\ IF has_result
       THEN /\ result' = record_game(result, cur_game, round_num)
            /\ observation' = "reset"
            /\ env_op' = [kind |-> "reset", game |-> cur_game,
                          rounds_left |-> game_rounds_left[cur_game]]
            /\ reward' = 0
            /\ done' = FALSE
            /\ no_reward_turns' = 0
            /\ pc' = "inner"
            /\ err' = "none"
       ELSE /\ pc' = "failed"
            /\ err' = "AttributeError"
            /\ UNCHANGED <<result, observation, env_op, reward, done,
                           no_reward_turns>>
    /\ UNCHANGED <<parmsVars, action_space_n, action, stepped, cur_game, round_num,
                   game_rounds_left, initial_rounds, items_order, envs, has_result,
                   threshold,
                   benchVars>>

\* Lines 352-362: one turn of the inner loop.
TrainTurn(candidate, rew, terminated) ==
    /\ pc = "inner"
    /\ keeps_playing(game_rounds_left[cur_game], done, no_reward_turns,
                     parms[1].max_turns_w_no_reward)
    /\ round_num' = round_num + 1
    /\ action' = map_invalid_action(candidate, action_space_n[cur_game])
    /\ stepped' = cur_game
    /\ env_op' = [kind |-> "step", game |-> cur_game,
                  rounds_left |-> game_rounds_left[cur_game]]
    /\ observation' = "step"
    /\ reward' = rew
    /\ done' = terminated
    /\ result' = record_reward(result, rew)
    /\ no_reward_turns' = IF rew > 0 THEN 0 ELSE no_reward_turns + 1
    /\ game_rounds_left' = charge(game_rounds_left, cur_game, rew)
    /\ UNCHANGED <<parmsVars, err, pc, action_space_n, cur_game, initial_rounds,
                   items_order, envs, has_result, threshold,
                   benchVars>>

\* Line 363: the inner loop is over and record_done(round) is called.
TrainEndVisit ==
    /\ pc = "inner"
    /\ ~keeps_playing(game_rounds_left[cur_game], done, no_reward_turns,
                      parms[1].max_turns_w_no_reward)
    /\ result' = record_done(result, round_num)
    /\ pc' = "while"
    /\ UNCHANGED <<parmsVars, err, action_space_n, observation, reward, action,
                   stepped, cur_game, round_num, game_rounds_left, initial_rounds,
                   items_order, envs, has_result, threshold, done, no_reward_turns,
                   env_op,
                   benchVars>>

\* Line 345: no rounds are left and the outer loop ends.
TrainReturn ==
    /\ pc = "while"
    /\ total_rounds_left(game_rounds_left) = 0
    /\ pc' = "done"
    /\ UNCHANGED <<parmsVars, err, action_space_n, observation, reward, action,
                   stepped, cur_game, round_num, result, trainVars,
                   benchVars>>

TrainNext ==
    \/ \E thresh \in 0..(MaxTrainGames * MaxQuota) : TrainSample(thresh)
    \/ TrainBeginVisit
    \/ \E candidate \in Candidates, rew \in Rewards, terminated \in BOOLEAN :
          TrainTurn(candidate, rew, terminated)
    \/ TrainEndVisit
    \/ TrainReturn

SpecTrain == TrainInit /\ [][TrainNext]_vars

\* The runs whose loop can be followed: envs filled and result bound, the
\* games held by game_rounds_left in the order of GAME_NAMES (the quotas
\* being any, every arrangement of quotas along the order is drawn), one
\* action count for all the games, and at most MaxTotalRounds rounds in all.
TrainLoopInit ==
    /\ TrainInit
    /\ envs = Range(GAME_NAMES)
    /\ has_result
    /\ items_order = GAME_NAMES
    /\ \A g, h \in Range(GAME_NAMES) : action_space_n[g] = action_space_n[h]
    /\ total_rounds_left(initial_rounds) <= MaxTotalRounds

\* The agent answers a valid action or one past the game's actions.
TrainLoopNext ==
    \/ \E thresh \in 0..MaxTotalRounds : TrainSample(thresh)
    \/ TrainBeginVisit
    \/ \E candidate \in {0, MaxActions}, rew \in Rewards, terminated \in BOOLEAN :
          TrainTurn(candidate, rew, terminated)
    \/ TrainEndVisit
    \/ TrainReturn

SpecTrainLoop == TrainLoopInit /\ [][TrainLoopNext]_vars

\* C6: the run's loop comes to its end having played exactly as many turns
\* as the sum of the games' initial quotas.
C6_EndsAfterAllQuotaTurns ==
    pc \in {"done", "failed"} =>
        round_num = total_rounds_left(initial_rounds)

\* C7: the game sample_env returns has rounds left, for every threshold
\* drawn and every order of the games.
C7_SampledGameHasRoundsLeft ==
    pc = "sampled" => game_rounds_left[cur_game] > 0

\* C8: when exactly one game starts with a positive quota, every visit
\* goes to that game: every reset and every step is of that game, none of a
\* game whose quota is 0.
C8_OnlyPositiveQuotaGamePlayed ==
    LET positive == {g \in DOMAIN initial_rounds : initial_rounds[g] > 0}
    IN Cardinality(positive) = 1 =>
          (env_op.kind # "none" => env_op.game \in positive)

\* C16: an entry is added to the trace's dones only for a turn whose step
\* reported the episode over: a visit that ends with the game's quota run
\* out or the no-reward streak at its cap (its last step, if any, not
\* reporting the episode over) adds none.
C16_BoundaryOnlyOnTermination ==
    [][result'.dones # result.dones => done]_vars

\* C17: the no-reward streak is 0 when a visit begins; a turn is played only
\* while the streak is below max_turns_w_no_reward, and sets the streak to 0
\* when its reward is positive and adds one otherwise; a turn charges its
\* game one round and nothing else changes a quota, so a game left with the
\* streak at its cap keeps the rounds it has not played.
C17_StreakEndsVisitAndKeepsQuota ==
    /\ [][(pc = "sampled" /\ pc' = "inner") => no_reward_turns' = 0]_vars
    /\ [][round_num' # round_num =>
            /\ round_num' = round_num + 1
            /\ no_reward_turns < parms[1].max_turns_w_no_reward
            /\ no_reward_turns' = IF reward' > 0 THEN 0 ELSE no_reward_turns + 1
            /\ game_rounds_left' =
                  [game_rounds_left EXCEPT ![cur_game] = @ - 1]]_vars
    /\ [][round_num' = round_num => game_rounds_left' = game_rounds_left]_vars
    /\ [](no_reward_turns <= parms[1].max_turns_w_no_reward)

\* A game left with its streak at the cap, the episode not over and rounds
\* of its quota unplayed, is drawn again by the next sample_env.
C17_Witness ==
    /\ pc = "sampled"
    /\ Len(result.dones) >= 1
    /\ stepped = cur_game
    /\ ~done
    /\ parms[1].max_turns_w_no_reward >= 1
    /\ no_reward_turns = parms[1].max_turns_w_no_reward
    /\ game_rounds_left[cur_game] > 0
    /\ game_rounds_left[cur_game] < initial_rounds[cur_game]

\* C20: in every state of a run each game's rounds left lie between 0 and
\* its initial quota; the turns played plus the rounds left of all games
\* equal the initial quotas' sum; the trace holds one reward per turn
\* played; and the round recorded with each visit is the number of turns
\* played before it: 0 for the first visit, and for any other the count at
\* which the visit before it ended, never more than the turns played.
C20_QuotaAccounting ==
    /\ \A g \in DOMAIN game_rounds_left :
          game_rounds_left[g] \in 0..initial_rounds[g]
    /\ round_num + total_rounds_left(game_rounds_left) =
          total_rounds_left(initial_rounds)
    /\ Len(result.rewards) = round_num
    /\ \A i \in 1..Len(result.games) :
          /\ result.games[i][2] <= round_num
          /\ result.games[i][2] = IF i = 1 THEN 0 ELSE result.dones[i - 1]
    /\ pc = "inner" =>
          /\ Len(result.games) = Len(result.dones) + 1
          /\ initial_rounds[cur_game] - game_rounds_left[cur_game] >=
                round_num - result.games[Len(result.games)][2]

\* A run in its second visit, of another game than the first, with turns
\* played in both and rounds left.
C20_Witness ==
    /\ pc = "inner"
    /\ Len(result.games) = 2
    /\ result.games[1][1] # result.games[2][1]
    /\ result.games[2][2] >= 1
    /\ round_num > result.games[2][2]
    /\ total_rounds_left(game_rounds_left) >= 1

----------------------------------------------------------------------------
(* TransferBenchmark.do_folds *)

\* The attributes a TransferBenchmark has: those __init__ assigns and the
\* methods the class defines.
TransferBenchmarkAttrs ==
    {"parms", "AgentClass", "untrained_agent", "game_agents", "game_results",
     "fold_agents", "fold_results", "dir", "test_set", "training_set",
     "default_dir", "game_agent_filename", "fold_agent_filename",
     "tested_agent_filename", "ensure_game_agents", "do_folds"}

\* agent.clone(): RandomAgent returns itself; an agent that keeps the
\* contract of Agent.clone returns a new object with a copy of its state.
clone(class, heap, a) ==
    IF class = "RandomAgent" THEN [agent |-> a, heap |-> heap]
    ELSE [agent |-> Len(heap) + 1, heap |-> Append(heap, heap[a])]

\* A configuration file with an empty list of folds.
NoFoldsFile == [HandWrittenFile EXCEPT !.folds = <<>>]

\* A TransferBenchmark as __init__ leaves it, on a configuration built by
\* BenchmarkParms(num_folds) or loaded from a file.
BenchInit ==
    /\ NoTraining
    /\ NoRun
    /\ NUM_GAMES \in 0..MaxGames
    /\ savedFrom = 0
    /\ op = [name |-> "none", arg |-> 0]
    /\ err = "none"
    /\ \E r \in 0..(RngStates - 1) :
          \/ /\ savefile = NoFile
             /\ origin = <<"init">>
             /\ \E num_folds \in 1..MaxFolds :
                   LET b == BenchmarkParms_init(num_folds, 1, "1", 1, r)
                   IN parms = <<b.obj>> /\ rng = b.rng
          \/ /\ savefile \in {HandWrittenFile, NoFoldsFile}
             /\ origin = <<"load">>
             /\ LET l == load_from_file(savefile, r)
                IN parms = <<l.obj>> /\ rng = l.rng
    /\ bench_pc = "call"
    /\ agent_class \in {"RandomAgent", "DeepCopyAgent"}
    /\ agents = <<0>>
    /\ untrained_agent = 1
    /\ game_agents = <<>>
    /\ game_results = <<>>
    /\ fold_agents = <<>>
    /\ fold_results = <<>>
    /\ game_index = 0
    /\ fold_num = 0

\* do_folds is called and calls ensure_game_agents.
DoFoldsCall ==
    /\ bench_pc = "call"
    /\ bench_pc' = "ensure"
    /\ game_index' = 0
    /\ UNCHANGED <<parmsVars, err, runVars, trainVars, agent_class, agents,
                   untrained_agent, game_agents, game_results, fold_agents,
                   fold_results, fold_num>>

propagate_swallowed(here) == here

\* An exception raised at position `here` of do_folds or ensure_game_agents:
\* neither has a try statement, so it leaves the run.
propagate(here) == "failed"

\* Lines 277-282 for one game: a game that has an agent is skipped; for
\* another the untrained agent is cloned (clone is the agent's code and may
\* raise) and self.test is looked up, which no TransferBenchmark has.
EnsureGameAgent(clone_raises) ==
    /\ bench_pc = "ensure"
    /\ game_index < Len(GAME_NAMES)
    /\ LET game == GAME_NAMES[game_index + 1]
           c == clone(agent_class, agents, untrained_agent)
       IN IF game \in DOMAIN game_agents
          THEN /\ ~clone_raises
               /\ game_index' = game_index + 1
               /\ UNCHANGED <<bench_pc, err, agents>>
          ELSE IF clone_raises
          THEN /\ bench_pc' = propagate("ensure")
               /\ err' = "AgentError"
               /\ UNCHANGED <<agents, game_index>>
          ELSE /\ agents' = c.heap
               /\ IF "test" \in TransferBenchmarkAttrs
                  THEN bench_pc' = "test" /\ err' = "none"
                  ELSE bench_pc' = propagate("ensure") /\ err' = "AttributeError"
               /\ UNCHANGED game_index
    /\ UNCHANGED <<parmsVars, runVars, trainVars, agent_class, untrained_agent,
                   game_agents, game_results, fold_agents, fold_results, fold_num>>

\* ensure_game_agents returns: every game was gone through.
EnsureReturn ==
    /\ bench_pc = "ensure"
    /\ game_index = Len(GAME_NAMES)
    /\ bench_pc' = "folds"
    /\ fold_num' = 0
    /\ UNCHANGED <<parmsVars, err, runVars, trainVars, agent_class, agents,
                   untrained_agent, game_agents, game_results, fold_agents,
                   fold_results, game_index>>

\* Lines 292-295 of a fold: the untrained agent is cloned (which may raise)
\* and stored at index fold_num of the list fold_agents, which __init__ left
\* empty; past that, TrainingRun.__init__ reads self.max_test_game_rounds,
\* which no TrainingRun has.
FoldBegin(clone_raises) ==
    /\ bench_pc = "folds"
    /\ fold_num < Len(parms[1].folds)
    /\ LET c == clone(agent_class, agents, untrained_agent)
       IN IF clone_raises
          THEN /\ err' = "AgentError"
               /\ UNCHANGED <<agents, fold_agents>>
          ELSE /\ agents' = c.heap
               /\ IF fold_num < Len(fold_agents)
                  THEN /\ fold_agents' = [fold_agents EXCEPT ![fold_num + 1] = c.agent]
                       /\ err' = "AttributeError"
                  ELSE /\ fold_agents' = fold_agents
                       /\ err' = "IndexError"
    /\ bench_pc' = propagate("folds")
    /\ UNCHANGED <<parmsVars, runVars, trainVars, agent_class, untrained_agent,
                   game_agents, game_results, fold_results, game_index, fold_num>>

\* Line 291: the folds are exhausted and do_folds returns.
DoFoldsReturn ==
    /\ bench_pc = "folds"
    /\ fold_num = Len(parms[1].folds)
    /\ bench_pc' = "done"
    /\ UNCHANGED <<parmsVars, err, runVars, trainVars, agent_class, agents,
                   untrained_agent, game_agents, game_results, fold_agents,
                   fold_results, game_index, fold_num>>

BenchNext ==
    \/ DoFoldsCall
    \/ \E clone_raises \in BOOLEAN : EnsureGameAgent(clone_raises)
    \/ EnsureReturn
    \/ \E clone_raises \in BOOLEAN : FoldBegin(clone_raises)
    \/ DoFoldsReturn

SpecBench == BenchInit /\ [][BenchNext]_vars

C12_DoFoldsCompletesItsWork ==
    (bench_pc \in {"done", "failed"} /\ err # "AgentError") =>
        /\ bench_pc = "done"
        /\ DOMAIN game_results = Range(GAME_NAMES)
        /\ Len(fold_agents) = Len(parms[1].folds)
        /\ Len(fold_results) = Len(parms[1].folds)
        /\ \A f \in 1..Len(parms[1].folds) :
              DOMAIN fold_results[f] = Range(parms[1].folds[f])

====
